---------------------------- MODULE Spec2Model ----------------------------
(***************************************************************************)
(* M-LOCK (mlock.c): an explicit-free-list allocator with boundary tags,   *)
(* coalescing and LIFO insertion, modelled on a word-addressed memory.     *)
(*                                                                         *)
(* Memory is a flat array of machine words, kept as the function from the  *)
(* addresses of its nonzero words to their values (fresh memory is zero).  *)
(* word_t is size_t; its width is WordBits here (all unsigned arithmetic   *)
(* of the code is taken modulo WordModulus), because the model checker's   *)
(* integers are narrower than 64 bits.                                     *)
(* Every C function is an operator from a machine record                   *)
(*   [mem, free_list, brk, lim, fault, hang, ub, calls, stopped, ubcalls]  *)
(* to a machine record (and a return value); an action applies one whole   *)
(* public call.                                                            *)
(*   fault : an access to an unmapped or misaligned address happened       *)
(*   hang  : a loop of the code did not terminate                          *)
(*   ub    : an access outside [HeapBase, brk), a wrapped pointer addition *)
(*           or a memcpy to NULL happened; the call may crash or go on     *)
(*           with the flat-memory result                                   *)
(*   calls : the sbrk calls made, each <<increment, granted>>              *)
(*   stopped, ubcalls : the sbrk calls made before the first fault or hang *)
(*           and before the first undefined behaviour                      *)
(***************************************************************************)
EXTENDS Integers, Sequences, FiniteSets, TLC

\* ---[ BOUNDS ]------------------------------------------------------------

WordBits == 16
HeapBase == 64
MaxHeap  == 9320
MaxLive  == 2
MaxOps   == 4
MaxPattern == 2
MaxFree  == 3
MaxThreadOps == 2
MaxCodecSize == 64

WordModulus == 2 ^ WordBits
\* Bytes of mapped memory from HeapBase on: the largest heap and the rest
\* of its last page (two words are enough for every access of the code).
MemBytes == 8 * (MaxHeap \div 8) + 16

\* ---[ CONSTANTS ]---------------------------------------------------------

WORD_SIZE == 8
FREE == 0
ALLOCATED == 1
MIN_DATA_SIZE == WORD_SIZE * 2
MIN_BLOCK_SIZE == WORD_SIZE * 4
CHUNK_SIZE == 4096
HEADER_SIZE == WORD_SIZE
BOUNDARY_SIZE == WORD_SIZE
KEY == 14600926 % WordModulus
NULL == 0
\* (void*)-1, sbrk's failure value
SBRK_FAILED == WordModulus - 1

\* ---[ WORD ARITHMETIC ]---------------------------------------------------

\* Unsigned arithmetic of width WordBits.
W(x) == x % WordModulus

MAX(x, y) == IF x > y THEN x ELSE y

\* Bitwise operations on words whose low three bits are the only ones that
\* matter: x & ~0x7, x & 0x1, and size | alloc.
AndNot7(w) == w - (w % 8)
And1(w) == w % 2
Or1(w, a) == IF a = 1 /\ w % 2 = 0 THEN w + 1 ELSE w

PACK_HEADER(size, alloc) == Or1(W(size), alloc)

ALIGN_BYTES(bytes) ==
    IF bytes % 8 = 0 THEN bytes ELSE W(8 * (bytes \div 8 + 1))

\* ---[ MEMORY ]------------------------------------------------------------

Mapped(p) ==
    /\ p >= HeapBase
    /\ p + WORD_SIZE <= HeapBase + MemBytes
    /\ (p - HeapBase) % WORD_SIZE = 0

\* The word at p of memory mem.
Load(mem, p) == IF p \in DOMAIN mem THEN mem[p] ELSE 0

\* Memory mem with f's words stored over it.
Store(mem, f) ==
    [a \in DOMAIN mem \cup DOMAIN f |-> IF a \in DOMAIN f THEN f[a] ELSE mem[a]]

\* The call stops here: a fault, or a loop that never ends.
Fault(m) ==
    IF m.fault \/ m.hang THEN [m EXCEPT !.fault = TRUE]
    ELSE [m EXCEPT !.fault = TRUE, !.stopped = m.calls]
Hang(m) ==
    IF m.fault \/ m.hang THEN m
    ELSE [m EXCEPT !.hang = TRUE, !.stopped = m.calls]

\* Undefined behaviour happens here: the call may stop here or go on.
Undefined(m) ==
    IF m.ub THEN m ELSE [m EXCEPT !.ub = TRUE, !.ubcalls = m.calls]

\* The access check of a load or store at p.
Touch(m, p) ==
    IF ~Mapped(p) THEN Fault(m)
    ELSE IF p + WORD_SIZE > m.brk THEN Undefined(m)
    ELSE m

\* The address p + n; a wrap of the addition is undefined behaviour.
Wrap(m, p, n) == IF p + n >= WordModulus THEN Undefined(m) ELSE m

GET_WORD(m, p) == IF Mapped(p) THEN Load(m.mem, p) ELSE 0

PUT_WORD(m, p, val) ==
    IF Mapped(p)
    THEN [Touch(m, p) EXCEPT !.mem = Store(@, [a \in {p} |-> val])]
    ELSE Fault(m)

\* GET_SIZE_FROM_HEADER without the mask (line 85).
GET_SIZE_FROM_HEADER_no_mask(m, p) == GET_WORD(m, p)
GET_SIZE_FROM_HEADER(m, p) == AndNot7(GET_WORD(m, p))
GET_ALLOC_FROM_HEADER(m, p) == And1(GET_WORD(m, p))
GET_HEADER(bp) == W(bp - HEADER_SIZE)
GET_PREV_BOUNDARY(bp) == W(bp - HEADER_SIZE - BOUNDARY_SIZE)
GET_SIZE(m, bp) == GET_SIZE_FROM_HEADER(m, GET_HEADER(bp))
GET_ALLOC(m, bp) == GET_ALLOC_FROM_HEADER(m, GET_HEADER(bp))
GET_BOUNDARY(m, bp) == W(bp + GET_SIZE(m, bp))
GET_PREV_SIZE(m, bp) == GET_SIZE_FROM_HEADER(m, GET_PREV_BOUNDARY(bp))
GET_PREV_ALLOC(m, bp) == GET_ALLOC_FROM_HEADER(m, GET_PREV_BOUNDARY(bp))
GET_NEXT_HEADER(m, bp) == W(bp + GET_SIZE(m, bp) + BOUNDARY_SIZE)
GET_NEXT_BLOCK(m, bp) == W(bp + GET_SIZE(m, bp) + BOUNDARY_SIZE + HEADER_SIZE)
GET_PREV_BLOCK(m, bp) ==
    W(bp - HEADER_SIZE - BOUNDARY_SIZE - GET_PREV_SIZE(m, bp))
GET_NEXT_FREE(m, fp) == GET_WORD(m, fp)
GET_PREV_FREE(m, fp) == GET_WORD(m, W(fp + WORD_SIZE))
PUT_NEXT_FREE(m, fp, val) == PUT_WORD(m, fp, val)
PUT_PREV_FREE(m, fp, val) == PUT_WORD(m, W(fp + WORD_SIZE), val)

\* The second statement of REDO_HEADERS: the boundary tag, found through
\* the header just written.
REDO_HEADERS_boundary(m, bp, size, alloc) ==
    PUT_WORD(Wrap(m, bp, GET_SIZE(m, bp)), GET_BOUNDARY(m, bp),
             PACK_HEADER(size, alloc))

REDO_HEADERS(m, bp, size, alloc) ==
    REDO_HEADERS_boundary(
        PUT_WORD(m, GET_HEADER(bp), PACK_HEADER(size, alloc)),
        bp, size, alloc)

LINK_FREE(m, fp1, fp2) ==
    IF fp1 = fp2 THEN m
    ELSE IF fp2 # NULL
    THEN PUT_PREV_FREE(IF fp1 # NULL THEN PUT_NEXT_FREE(m, fp1, fp2) ELSE m,
                       fp2, fp1)
    ELSE IF fp1 # NULL THEN PUT_NEXT_FREE(m, fp1, fp2)
    ELSE m

\* ---[ FUNCTIONS ]---------------------------------------------------------
\* f_step is the rest of function f from one of its statements on; its
\* first argument is the machine the statements before it left.

\* remove_free_block without the advance of the head (lines 451-453).
remove_free_block_no_head(m, fp) ==
    LINK_FREE(Touch(Touch(m, fp), W(fp + WORD_SIZE)),
              GET_PREV_FREE(m, fp), GET_NEXT_FREE(m, fp))

remove_free_block(m, fp) ==
    LINK_FREE(IF fp = m.free_list
              THEN [Touch(Touch(m, fp), W(fp + WORD_SIZE))
                       EXCEPT !.free_list = GET_NEXT_FREE(m, fp)]
              ELSE Touch(Touch(m, fp), W(fp + WORD_SIZE)),
              GET_PREV_FREE(m, fp), GET_NEXT_FREE(m, fp))

\* Insert ptr before the current free list head
unlock_insert(m, ptr) ==
    [PUT_PREV_FREE(LINK_FREE(m, ptr, m.free_list), ptr, NULL)
        EXCEPT !.free_list = ptr]

\* Coalesce with next
unlock_next(m, ptr, size, next_header) ==
    unlock_insert(
        IF GET_ALLOC_FROM_HEADER(m, next_header) = FREE
        THEN remove_free_block(
                 REDO_HEADERS(m, ptr,
                     W(size + GET_SIZE_FROM_HEADER(m, next_header)
                       + BOUNDARY_SIZE + HEADER_SIZE),
                     FREE),
                 W(next_header + HEADER_SIZE))
        ELSE m,
        ptr)

unlock_next_header(m, ptr, size) ==
    unlock_next(Touch(Wrap(m, ptr, GET_SIZE(m, ptr) + BOUNDARY_SIZE),
                      GET_NEXT_HEADER(m, ptr)),
                ptr, size, GET_NEXT_HEADER(m, ptr))

\* Coalesce with previous
unlock_prev(m, ptr, size) ==
    unlock_next_header(
        remove_free_block(REDO_HEADERS(m, ptr, size, FREE), ptr), ptr, size)

unlock_coalesce(m, ptr, size) ==
    IF GET_PREV_ALLOC(m, ptr) = FREE
    THEN unlock_prev(Touch(m, GET_HEADER(GET_PREV_BLOCK(m, ptr))),
                     GET_PREV_BLOCK(m, ptr),
                     W(size + GET_SIZE(m, GET_PREV_BLOCK(m, ptr))
                       + BOUNDARY_SIZE + HEADER_SIZE))
    ELSE unlock_next_header(m, ptr, size)

unlock(m, ptr) ==
    unlock_coalesce(
        Touch(REDO_HEADERS(Touch(m, GET_HEADER(ptr)), ptr, GET_SIZE(m, ptr),
                           FREE),
              GET_PREV_BOUNDARY(ptr)),
        ptr, GET_SIZE(m, ptr))

\* The growth primitive.  Its argument is an intptr_t: a word with the top
\* bit set is a negative increment.  The break never passes the data limit
\* lim of the moment, nor the start of the heap.
sbrk(m, incr) ==
    LET signed == IF incr >= WordModulus \div 2 THEN incr - WordModulus
                  ELSE incr
        nb == m.brk + signed
        ok == nb <= m.lim /\ nb >= HeapBase
    IN  [m |-> [m EXCEPT !.brk = IF ok THEN nb ELSE @,
                         !.calls = Append(@, <<incr, ok>>)],
         ret |-> IF ok THEN m.brk ELSE SBRK_FAILED]

\* New epilogue; inserts fp into free_list
extend_heap_epilogue(m, fp) ==
    unlock(PUT_WORD(Wrap(m, fp, GET_SIZE(m, fp) + BOUNDARY_SIZE),
                    GET_NEXT_HEADER(m, fp), PACK_HEADER(0, ALLOCATED)),
           fp)

\* extend_heap_grown with sbrk's failure looked for as NULL, as init_lock
\* looks for it, instead of as (void*)-1.
extend_heap_null_test(r, size) ==
    IF r.ret = NULL
    THEN [m |-> r.m, ret |-> -1]
    ELSE [m |-> extend_heap_epilogue(REDO_HEADERS(r.m, r.ret, size, FREE),
                                     r.ret),
          ret |-> 0]

\* r is what sbrk gave: r.ret is fp.
extend_heap_grown(r, size) ==
    IF r.ret = SBRK_FAILED
    THEN [m |-> r.m, ret |-> -1]
    \* Override old epilogue with new header
    ELSE [m |-> extend_heap_epilogue(REDO_HEADERS(r.m, r.ret, size, FREE),
                                     r.ret),
          ret |-> 0]

extend_heap(m, size) ==
    extend_heap_grown(
        sbrk(m, W(ALIGN_BYTES(size) + BOUNDARY_SIZE + HEADER_SIZE)),
        ALIGN_BYTES(size))

\* Create new free block
place_split(m, fp, difference) ==
    unlock(REDO_HEADERS(
               Wrap(m, fp, GET_SIZE(m, fp) + BOUNDARY_SIZE + HEADER_SIZE),
               GET_NEXT_BLOCK(m, fp),
               W(difference - HEADER_SIZE - BOUNDARY_SIZE), FREE),
           GET_NEXT_BLOCK(m, fp))

place_fit(m, fp, size, available_size, difference) ==
    IF difference = 0
    THEN REDO_HEADERS(m, fp, size, ALLOCATED)
    ELSE IF difference < MIN_BLOCK_SIZE
    THEN REDO_HEADERS(m, fp, available_size, ALLOCATED)
    ELSE place_split(REDO_HEADERS(m, fp, size, ALLOCATED), fp, difference)

place_removed(m, fp, size) ==
    place_fit(m, fp, size, GET_SIZE(m, fp), W(GET_SIZE(m, fp) - size))

place(m, fp, size) ==
    place_removed(Touch(remove_free_block(m, fp), GET_HEADER(fp)), fp,
                  ALIGN_BYTES(size))

\* The for loop of find_fit.  The loop writes nothing, so coming to a member
\* it has seen before means it never ends.
RECURSIVE find_fit_loop(_, _, _, _)
find_fit_loop(m, fp, size, seen) ==
    IF fp = NULL THEN [m |-> m, ret |-> NULL]
    ELSE IF fp \in seen THEN [m |-> Hang(m), ret |-> NULL]
    ELSE IF GET_SIZE(m, fp) >= size
    THEN [m |-> Touch(m, GET_HEADER(fp)), ret |-> fp]
    ELSE find_fit_loop(Touch(Touch(m, GET_HEADER(fp)), fp),
                       GET_NEXT_FREE(m, fp), size, seen \cup {fp})

find_fit(m, size) ==
    IF m.free_list = NULL THEN [m |-> m, ret |-> NULL]
    ELSE find_fit_loop(m, m.free_list, ALIGN_BYTES(size), {})

\* e is what extend_heap gave; extend_heap put the result in free_list
mlock_extended(e, size) ==
    IF e.ret = -1 THEN [m |-> e.m, ret |-> NULL]
    ELSE [m |-> place(e.m, e.m.free_list, size), ret |-> e.m.free_list]

\* f is what find_fit gave: f.ret is fp.
mlock_found(f, size) ==
    IF f.ret # NULL
    THEN [m |-> place(f.m, f.ret, size), ret |-> f.ret]
    \* No available blocks; extend heap to get more
    ELSE mlock_extended(extend_heap(f.m, MAX(size, CHUNK_SIZE)), size)

\* mlock without its test of size <= 0 (lines 291-294).
mlock_no_size_test(m, size) ==
    mlock_found(find_fit(m, MAX(ALIGN_BYTES(size), MIN_DATA_SIZE)),
                MAX(ALIGN_BYTES(size), MIN_DATA_SIZE))

mlock(m, size) ==
    IF size <= 0 THEN [m |-> m, ret |-> NULL]
    ELSE mlock_found(find_fit(m, MAX(ALIGN_BYTES(size), MIN_DATA_SIZE)),
                     MAX(ALIGN_BYTES(size), MIN_DATA_SIZE))

\* memcpy of n bytes, n a multiple of the word size.  A NULL destination is
\* undefined behaviour: a crash, or a copy that lands outside the arena.
memcpy(m, dst, src, n) ==
    LET k == n \div WORD_SIZE
        ok == /\ Mapped(dst) /\ Mapped(src)
              /\ dst + n <= HeapBase + MemBytes
              /\ src + n <= HeapBase + MemBytes
    IN  IF dst = NULL THEN Undefined(m)
        ELSE IF ~ok THEN Fault(m)
        ELSE [(IF dst + n > m.brk \/ src + n > m.brk THEN Undefined(m) ELSE m)
                 EXCEPT !.mem = Store(@,
                 [a \in {dst + WORD_SIZE * i : i \in 0 .. k - 1} |->
                     Load(m.mem, a - dst + src)])]

\* Create new free block from leftovers
relock_split(m, ptr, leftover) ==
    unlock(REDO_HEADERS(
               Wrap(m, ptr, GET_SIZE(m, ptr) + BOUNDARY_SIZE + HEADER_SIZE),
               GET_NEXT_BLOCK(m, ptr),
               W(leftover - HEADER_SIZE - BOUNDARY_SIZE), FREE),
           GET_NEXT_BLOCK(m, ptr))

\* a is what mlock gave: a.ret is new_ptr.  Copy old data over
relock_copy(a, ptr, current_size) ==
    [m |-> unlock(memcpy(a.m, a.ret, ptr, current_size), ptr),
     ret |-> a.ret]

\* Next block can be merged into
relock_merge(m, ptr, size, current_size, gained_in_merge, leftover) ==
    IF leftover = 0
    THEN REDO_HEADERS(m, ptr, size, ALLOCATED)
    ELSE IF leftover < MIN_BLOCK_SIZE
    THEN REDO_HEADERS(m, ptr, W(current_size + gained_in_merge), ALLOCATED)
    ELSE relock_split(REDO_HEADERS(m, ptr, size, ALLOCATED), ptr, leftover)

relock_grow(m, ptr, size, current_size, needed, next_bp, gained_in_merge) ==
    IF GET_ALLOC(m, next_bp) = ALLOCATED \/ gained_in_merge < needed
    \* Next block is not free or next block is not large enough
    THEN relock_copy(mlock(m, size), ptr, current_size)
    ELSE [m |-> relock_merge(remove_free_block(m, next_bp), ptr, size,
                             current_size, gained_in_merge,
                             W(gained_in_merge - needed)),
          ret |-> ptr]

relock_next(m, ptr, size, current_size, next_bp) ==
    relock_grow(Touch(Wrap(m, ptr,
                           current_size + BOUNDARY_SIZE + HEADER_SIZE),
                      GET_HEADER(next_bp)),
                ptr, size, current_size, W(size - current_size), next_bp,
                W(BOUNDARY_SIZE + HEADER_SIZE + GET_SIZE(m, next_bp)))

relock_resize(m, ptr, size, current_size) ==
    IF size = current_size THEN [m |-> m, ret |-> ptr]
    ELSE IF size < current_size
    THEN IF W(current_size - size) < MIN_BLOCK_SIZE
         \* Not enough leftovers to make a new free block
         THEN [m |-> m, ret |-> ptr]
         ELSE [m |-> relock_split(REDO_HEADERS(m, ptr, size, ALLOCATED), ptr,
                                  W(current_size - size)),
               ret |-> ptr]
    ELSE relock_next(m, ptr, size, current_size, GET_NEXT_BLOCK(m, ptr))

\* relock without its test of ptr == NULL (lines 361-364).
relock_no_null_test(m, ptr, size) ==
    IF size <= 0 THEN [m |-> unlock(m, ptr), ret |-> NULL]
    ELSE relock_resize(Touch(m, GET_HEADER(ptr)), ptr,
                       MAX(ALIGN_BYTES(size), MIN_DATA_SIZE),
                       GET_SIZE(m, ptr))

\* relock without its test of size <= 0 (lines 366-370).
relock_no_size_test(m, ptr, size) ==
    IF ptr = NULL THEN mlock(m, size)
    ELSE relock_resize(Touch(m, GET_HEADER(ptr)), ptr,
                       MAX(ALIGN_BYTES(size), MIN_DATA_SIZE),
                       GET_SIZE(m, ptr))

relock(m, ptr, size) ==
    IF ptr = NULL THEN mlock(m, size)
    ELSE IF size <= 0 THEN [m |-> unlock(m, ptr), ret |-> NULL]
    ELSE relock_resize(Touch(m, GET_HEADER(ptr)), ptr,
                       MAX(ALIGN_BYTES(size), MIN_DATA_SIZE),
                       GET_SIZE(m, ptr))

\* e is what extend_heap gave.
init_lock_extended(e, heap_start) ==
    IF e.ret = -1 THEN [m |-> e.m, ret |-> NULL]
    ELSE [m |-> e.m, ret |-> heap_start]

\* init_lock_sentinels with the prologue's boundary tag written as free.
init_lock_free_prologue(m, heap_list) ==
    PUT_WORD(
        PUT_WORD(
            PUT_WORD(PUT_WORD(m, heap_list, KEY),
                     W(heap_list + WORD_SIZE), PACK_HEADER(0, ALLOCATED)),
            W(heap_list + 2 * WORD_SIZE), PACK_HEADER(0, FREE)),
        W(heap_list + 3 * WORD_SIZE), PACK_HEADER(0, ALLOCATED))

\* The magic word, prologue header, prologue boundary tag, epilogue header
init_lock_sentinels(m, heap_list) ==
    PUT_WORD(
        PUT_WORD(
            PUT_WORD(PUT_WORD(m, heap_list, KEY),
                     W(heap_list + WORD_SIZE), PACK_HEADER(0, ALLOCATED)),
            W(heap_list + 2 * WORD_SIZE), PACK_HEADER(0, ALLOCATED)),
        W(heap_list + 3 * WORD_SIZE), PACK_HEADER(0, ALLOCATED))

\* r is what sbrk gave: r.ret is heap_list.
init_lock_grown(r) ==
    IF r.ret = NULL THEN [m |-> r.m, ret |-> NULL]
    \* extend_heap inserts the free block into free_list
    ELSE init_lock_extended(
             extend_heap(init_lock_sentinels(r.m, r.ret), CHUNK_SIZE),
             W(r.ret + 2 * WORD_SIZE))

init_lock(m) == init_lock_grown(sbrk(m, WORD_SIZE * 4))

\* ---[ CALLER ]------------------------------------------------------------

\* The caller writes a pattern over the n bytes it asked for at p: word k of
\* the region gets seed + k.
fill(m, p, n, seed) ==
    LET k == (n + WORD_SIZE - 1) \div WORD_SIZE
    IN  IF ~Mapped(p) \/ p + k * WORD_SIZE > HeapBase + MemBytes
        THEN Fault(m)
        ELSE [(IF p + k * WORD_SIZE > m.brk THEN Undefined(m) ELSE m)
                 EXCEPT !.mem = Store(@,
                 [a \in {p + WORD_SIZE * i : i \in 0 .. k - 1} |->
                     W(seed + (a - p) \div WORD_SIZE)])]

\* The test program's loop body (main): every size of the pattern is
\* requested in turn, then every pointer obtained is given back in the same
\* order.  The results are not tested: a NULL from mlock is given to unlock.
RECURSIVE main_mlock_all(_, _, _)
main_mlock_next(a, pattern, arrs) ==
    main_mlock_all(a.m, pattern, Append(arrs, a.ret))

main_mlock_all(m, pattern, arrs) ==
    IF Len(arrs) = Len(pattern) THEN [m |-> m, arrs |-> arrs]
    ELSE main_mlock_next(mlock(m, pattern[Len(arrs) + 1]), pattern, arrs)

RECURSIVE main_unlock_all(_, _)
main_unlock_all(m, arrs) ==
    IF arrs = <<>> THEN m
    ELSE main_unlock_all(unlock(m, Head(arrs)), Tail(arrs))

\* r is what the first inner loop left: the machine and arrs.
main_unlock_arrs(r) == [m |-> main_unlock_all(r.m, r.arrs), arrs |-> r.arrs]

main_iteration(m, pattern) ==
    main_unlock_arrs(main_mlock_all(m, pattern, <<>>))

\* ---[ STATE ]-------------------------------------------------------------

VARIABLES
    mem,        \* the nonzero words of memory: address |-> word
    free_list,  \* the global free_list
    brk,        \* the program break
    live,       \* the caller's pointers: pointer |-> bytes asked for
    status,     \* "uninit", "ready", "init_failed", "crashed", "hung"
    last,       \* the last call: operation, arguments, result, sbrk calls
    obtained,   \* bytes obtained from sbrk so far
    nops,       \* number of calls made
    threads,    \* concurrent callers: thread |-> position and local variables
    lock        \* the callers' lock: its holder, Unlocked or Unsynchronized

vars ==
    <<mem, free_list, brk, live, status, last, obtained, nops, threads, lock>>

\* The callers use no lock; the callers' lock is free.
Unsynchronized == -1
Unlocked == 0

\* ---[ THE ARENA, READ FROM MEMORY ]---------------------------------------

\* The last call returned to the caller.
Returned == status \in {"ready", "init_failed"}

Word(p) == IF Mapped(p) THEN Load(mem, p) ELSE -1
SizeOf(bp) == AndNot7(Word(bp - HEADER_SIZE))
AllocOf(bp) == And1(Word(bp - HEADER_SIZE))
\* The address of bp's boundary tag, as GET_BOUNDARY finds it.
TagOf(bp) == W(bp + SizeOf(bp))
\* The payload address of the first block: its header is the word after the
\* prologue's boundary tag.
FirstBlock == HeapBase + 4 * WORD_SIZE
EpilogueSlot == brk - WORD_SIZE

\* The payload addresses met from bp by stepping as GET_NEXT_BLOCK steps,
\* up to a header of size 0 (an epilogue) or the last word of the arena.
RECURSIVE Walk(_, _)
Walk(bp, seen) ==
    IF \/ bp - HEADER_SIZE >= EpilogueSlot
       \/ bp < FirstBlock
       \/ ~Mapped(bp - HEADER_SIZE)
       \/ SizeOf(bp) = 0
       \/ bp \in seen
    THEN <<>>
    ELSE <<bp>> \o Walk(W(bp + SizeOf(bp) + BOUNDARY_SIZE + HEADER_SIZE),
                        seen \cup {bp})

Blocks == Walk(FirstBlock, {})
BlockSet == {Blocks[i] : i \in 1 .. Len(Blocks)}
FreeBlocks == {bp \in BlockSet : AllocOf(bp) = FREE}

\* The bytes of the blocks bs: header + payload + boundary tag of each, as
\* plain integers.
RECURSIVE SumBytes(_)
SumBytes(bs) ==
    IF bs = <<>> THEN 0
    ELSE SizeOf(Head(bs)) + HEADER_SIZE + BOUNDARY_SIZE + SumBytes(Tail(bs))

\* The members of the free list in order, following next references from
\* fp; a cycle or a wild reference ends the sequence with -1.
RECURSIVE ListFrom(_, _)
ListFrom(fp, seen) ==
    IF fp = NULL THEN <<>>
    ELSE IF fp \in seen \/ ~Mapped(fp) \/ ~Mapped(fp - HEADER_SIZE)
    THEN <<-1>>
    ELSE <<fp>> \o ListFrom(Word(fp), seen \cup {fp})

FreeList == ListFrom(free_list, {})
FreeListSet == {FreeList[i] : i \in 1 .. Len(FreeList)}

ReqSizes ==
    {0, 1, 24, 4096, 5000, WordModulus - 1, WordModulus - 8,
     WordModulus - 32, WordModulus - 40}
Seeds == {40960}
\* The data limits the environment may impose during a call: no growth at
\* all, or growth up to the largest heap.
Limits == {HeapBase, HeapBase + 4 * WORD_SIZE, HeapBase + MaxHeap}

Machine(lim) ==
    [mem |-> mem, free_list |-> free_list, brk |-> brk, lim |-> lim,
     fault |-> FALSE, hang |-> FALSE, ub |-> FALSE, calls |-> <<>>,
     stopped |-> <<>>, ubcalls |-> <<>>]

Call(o, p, n, ret, calls) ==
    [op |-> o, ptr |-> p, size |-> n, ret |-> ret, calls |-> calls]

\* The bytes the successful sbrk calls of a call obtained.
RECURSIVE Granted(_)
Granted(calls) ==
    IF calls = <<>> THEN 0
    ELSE (IF Head(calls)[2]
          THEN (IF Head(calls)[1] >= WordModulus \div 2
                THEN Head(calls)[1] - WordModulus ELSE Head(calls)[1])
          ELSE 0) + Granted(Tail(calls))

Nonzero(f) == [a \in {b \in DOMAIN f : f[b] # 0} |-> f[a]]

\* The call returns with result r, or it stops where it faults or hangs,
\* or it stops at its first undefined behaviour.  A call that stops returns
\* nothing, and nothing of what it wrote is seen again.
Finish(o, p, n, r, lv, st) ==
    /\ nops' = nops + 1
    /\ UNCHANGED <<threads, lock>>
    /\ \/ /\ ~r.m.fault /\ ~r.m.hang
          /\ last' = Call(o, p, n, r.ret, r.m.calls)
          /\ mem' = Nonzero(r.m.mem)
          /\ free_list' = r.m.free_list
          /\ brk' = r.m.brk
          /\ live' = lv
          /\ status' = st
          /\ obtained' = obtained + Granted(r.m.calls)
       \/ /\ r.m.fault \/ r.m.hang
          /\ last' = Call(o, p, n, NULL, r.m.stopped)
          /\ status' = IF r.m.fault THEN "crashed" ELSE "hung"
          /\ UNCHANGED <<mem, free_list, brk, live, obtained>>
       \/ /\ r.m.ub
          /\ last' = Call(o, p, n, NULL, r.m.ubcalls)
          /\ status' = "crashed"
          /\ UNCHANGED <<mem, free_list, brk, live, obtained>>

Without(f, p) == [q \in DOMAIN f \ {p} |-> f[q]]
With(f, p, n) == [q \in DOMAIN f \cup {p} |-> IF q = p THEN n ELSE f[q]]

Empty == [a \in {} |-> 0]

Init ==
    /\ mem = Empty
    /\ free_list = NULL
    /\ brk = HeapBase
    /\ live = Empty
    /\ status = "uninit"
    /\ last = [op |-> "none", ptr |-> NULL, size |-> 0, ret |-> NULL,
               calls |-> <<>>]
    /\ obtained = 0
    /\ nops = 0
    /\ threads = <<>>
    /\ lock = Unsynchronized

InitLock ==
    /\ status = "uninit"
    /\ \E lim \in Limits :
          LET done(r) ==
                  Finish("init_lock", NULL, 0, r, live,
                         IF r.ret = NULL THEN "init_failed" ELSE "ready")
          IN  done(init_lock(Machine(lim)))

Mlock ==
    /\ status = "ready" /\ nops < MaxOps
    /\ Cardinality(DOMAIN live) < MaxLive
    /\ \E size \in ReqSizes, lim \in {brk, HeapBase + MaxHeap} :
          LET done(r) ==
                  Finish("mlock", NULL, size, r,
                         IF r.ret = NULL THEN live
                         ELSE With(live, r.ret, size),
                         status)
          IN  done(mlock(Machine(lim), size))

Unlock ==
    /\ status = "ready" /\ nops < MaxOps
    /\ \E ptr \in DOMAIN live :
          Finish("unlock", ptr, 0,
                 [m |-> unlock(Machine(brk), ptr), ret |-> NULL],
                 Without(live, ptr), status)

\* A failed relock leaves the caller's pointer valid; relock(ptr, 0) frees.
Relock ==
    /\ status = "ready" /\ nops < MaxOps
    /\ \E ptr \in DOMAIN live \cup {NULL}, size \in ReqSizes,
          lim \in {brk, HeapBase + MaxHeap} :
          /\ ptr = NULL => Cardinality(DOMAIN live) < MaxLive
          /\ LET done(r) ==
                     Finish("relock", ptr, size, r,
                            IF r.ret # NULL
                            THEN With(Without(live, ptr), r.ret, size)
                            ELSE IF size = 0 THEN Without(live, ptr)
                            ELSE live,
                            status)
             IN  done(relock(Machine(lim), ptr, size))

Fill ==
    /\ status = "ready" /\ nops < MaxOps
    /\ \E ptr \in DOMAIN live, seed \in Seeds :
          Finish("fill", ptr, live[ptr],
                 [m |-> fill(Machine(brk), ptr, live[ptr], seed),
                  ret |-> NULL],
                 live, status)

Next == InitLock \/ Mlock \/ Unlock \/ Relock \/ Fill

Spec == Init /\ [][Next]_vars

\* ---[ CLAIMS ]------------------------------------------------------------

\* C1. Tag consistency: after every call returns, every block between the
\* prologue and the epilogue has a header word equal to its boundary-tag
\* word.
TagConsistency ==
    Returned =>
        \A bp \in BlockSet : Word(bp - HEADER_SIZE) = Word(TagOf(bp))

\* C2. Free List membership: after every call returns, every block reachable
\* from the free-list head is marked free, and every block of the arena whose
\* header says free is reachable from the head.
FreeListMembership ==
    Returned =>
        /\ \A fp \in FreeListSet : fp # -1 /\ AllocOf(fp) = FREE
        /\ FreeBlocks \subseteq FreeListSet

\* C3. No-adjacent-free: after every call returns, no two physically adjacent
\* blocks of the arena are both free.
NoAdjacentFree ==
    Returned =>
        \A i \in 1 .. Len(Blocks) - 1 :
            ~(AllocOf(Blocks[i]) = FREE /\ AllocOf(Blocks[i + 1]) = FREE)

\* C4. Conservation: after every call returns, stepping block by block from
\* the first block ends exactly on the epilogue header, the last word
\* obtained, and the bytes of the blocks plus the four sentinel words equal
\* the bytes obtained from sbrk.
Conservation ==
    Returned =>
        /\ SumBytes(Blocks) + 4 * WORD_SIZE = obtained
        /\ HeapBase + obtained = brk
        /\ Word(EpilogueSlot) = PACK_HEADER(0, ALLOCATED)

\* C5. Minimum size: in every state no free block, of the arena or of the
\* free list, has a payload of less than two words.
MinimumSize ==
    Returned =>
        \A fp \in FreeBlocks \cup (FreeListSet \ {-1}) :
            SizeOf(fp) >= MIN_DATA_SIZE

\* The last call was allocate: mlock, or relock with a null pointer.
WasAllocate ==
    last.op = "mlock" \/ (last.op = "relock" /\ last.ptr = NULL)

\* Some sbrk call of the calls failed.
SbrkFailed(calls) == \E i \in 1 .. Len(calls) : ~calls[i][2]

\* C6. Every block that allocate marks allocated has a payload that is a
\* multiple of 8 and at least two words: the header word of the block
\* returned is such a size with the allocated bit and no other low bit.
AllocatedPayloadFloor ==
    (Returned /\ WasAllocate /\ last.ret # NULL) =>
        /\ Word(last.ret - HEADER_SIZE) % 8 = ALLOCATED
        /\ SizeOf(last.ret) >= MIN_DATA_SIZE

\* A request of 1 to 8 bytes was served with a payload of two words.
AllocatedPayloadFloorWitness ==
    /\ Returned /\ last.op = "mlock" /\ last.ret # NULL
    /\ last.size \in 1 .. WORD_SIZE
    /\ SizeOf(last.ret) = MIN_DATA_SIZE

\* C7. For every request size > 0, a successful allocate returns a non-null
\* pointer at a multiple of 8 from the arena base, whose block is marked
\* allocated and has a payload of at least the requested size.
AllocateContract ==
    (Returned /\ last.op = "mlock" /\ last.size > 0 /\ last.ret # NULL) =>
        /\ (last.ret - HeapBase) % 8 = 0
        /\ AllocOf(last.ret) = ALLOCATED
        /\ SizeOf(last.ret) >= last.size

\* C8. Data preservation: when reallocate(p, n) with n greater than the
\* payload size of p returns p2, the first currentPayloadSize(p) bytes of p2
\* after the call are the bytes of p before the call.
DataPreservation ==
    [][(/\ last'.op = "relock" /\ last'.ptr # NULL /\ nops' = nops + 1
        /\ status' = "ready" /\ last'.ret # NULL
        /\ last'.size > SizeOf(last'.ptr))
       => \A i \in 0 .. SizeOf(last'.ptr) \div WORD_SIZE - 1 :
              Load(mem', last'.ret + WORD_SIZE * i)
                  = Load(mem, last'.ptr + WORD_SIZE * i)
      ]_vars

\* C9. When reallocate's allocate+copy+free path meets a failing sbrk,
\* reallocate returns the failure value and the block, its contents, the
\* arena and the free list are as before the call.
ReallocateFailureKeepsState ==
    [][(/\ last'.op = "relock" /\ last'.ptr # NULL /\ nops' = nops + 1
        /\ SbrkFailed(last'.calls))
       => /\ status' = "ready"
          /\ last'.ret = NULL
          /\ mem' = mem /\ free_list' = free_list /\ brk' = brk
      ]_vars

\* C10. When allocate finds no fitting free block and sbrk fails, allocate
\* returns failure and every word of the arena, the break and the free list
\* are as before the call.
AllocateFailureKeepsState ==
    [][(/\ last'.op = "mlock" \/ (last'.op = "relock" /\ last'.ptr = NULL)
        /\ nops' = nops + 1
        /\ SbrkFailed(last'.calls))
       => /\ status' = "ready"
          /\ last'.ret = NULL
          /\ mem' = mem /\ free_list' = free_list /\ brk' = brk
          /\ obtained' = obtained
      ]_vars

\* An allocate failed on sbrk while the free list held a block.
AllocateFailureWitness ==
    /\ Returned /\ WasAllocate /\ last.size > 0 /\ last.ret = NULL
    /\ SbrkFailed(last.calls)
    /\ free_list # NULL

\* C11. When sbrk fails on init_lock's request for the four sentinel words,
\* init_lock returns NULL and memory and the break are as before; when sbrk
\* fails only on the growth by the first chunk, init_lock returns NULL too.
InitFailureReturns ==
    [][(/\ last'.op = "init_lock" /\ nops' = nops + 1
        /\ SbrkFailed(last'.calls))
       => /\ status' = "init_failed"
          /\ last'.ret = NULL
          /\ ~last'.calls[1][2] => (mem' = mem /\ brk' = brk)
      ]_vars

\* init_lock returned NULL because sbrk refused the first chunk.
InitFailureWitness ==
    /\ status = "init_failed" /\ last.op = "init_lock" /\ last.ret = NULL
    /\ Len(last.calls) = 2 /\ last.calls[1][2] /\ ~last.calls[2][2]

\* C12. allocate with a requested size <= 0 returns NULL, and memory, the
\* break and the free list are as before the call.
AllocateZeroIsNoOp ==
    [][(last'.op = "mlock" /\ nops' = nops + 1 /\ last'.size <= 0)
       => /\ status' = "ready"
          /\ last'.ret = NULL
          /\ last'.calls = <<>>
          /\ mem' = mem /\ free_list' = free_list /\ brk' = brk
          /\ obtained' = obtained
      ]_vars

\* mlock(0) returned while the free list held a block.
AllocateZeroWitness ==
    /\ Returned /\ last.op = "mlock" /\ last.size = 0 /\ last.ret = NULL
    /\ free_list # NULL

\* C13. Full coalescing: whenever every pointer the caller obtained has been
\* given back, the free list is exactly one block, the first block of the
\* arena, free, and its payload runs up to the boundary tag before the
\* epilogue header.
FullCoalescing ==
    (status = "ready" /\ DOMAIN live = {}) =>
        /\ FreeList = <<FirstBlock>>
        /\ AllocOf(FirstBlock) = FREE
        /\ SizeOf(FirstBlock) = brk - FirstBlock - 2 * WORD_SIZE

\* The arena grew for a block, the block has been given back by unlock, and
\* the free list is the one block that spans the grown arena.
FullCoalescingWitness ==
    /\ status = "ready" /\ DOMAIN live = {} /\ nops = MaxOps
    /\ last.op = "unlock"
    /\ FreeList = <<FirstBlock>>
    /\ SizeOf(FirstBlock) = brk - FirstBlock - 2 * WORD_SIZE
    /\ obtained > CHUNK_SIZE + 6 * WORD_SIZE

\* C14. Idempotent no-op: reallocate(p, n), where n aligned up to 8 and
\* floored at two words is the payload size of p, returns p, and every word
\* of memory (payloads, headers, tags), the break and the free list are as
\* before the call.
ReallocateSameSizeIsNoOp ==
    [][(/\ last'.op = "relock" /\ last'.ptr # NULL /\ nops' = nops + 1
        /\ last'.size > 0
        /\ MAX(ALIGN_BYTES(last'.size), MIN_DATA_SIZE) = SizeOf(last'.ptr))
       => /\ status' = "ready"
          /\ last'.ret = last'.ptr
          /\ last'.calls = <<>>
          /\ mem' = mem /\ free_list' = free_list /\ brk' = brk
      ]_vars

\* relock(p, n) returned for a block of exactly the aligned and floored n
\* bytes that held the caller's data.
ReallocateSameSizeWitness ==
    /\ Returned /\ last.op = "relock" /\ last.ptr # NULL /\ last.size > 0
    /\ last.ret = last.ptr
    /\ MAX(ALIGN_BYTES(last.size), MIN_DATA_SIZE) = SizeOf(last.ptr)
    /\ Word(last.ptr) # 0

\* The data limits sbrk may meet during a call made in this state: no growth
\* at all, or growth up to the largest heap.
CallLimits == {brk, HeapBase + MaxHeap}

\* C15. reallocate(null, n) behaves exactly as allocate(n): from every state
\* and for every n, n <= 0 included, relock(NULL, n) and mlock(n) return the
\* same value and leave the same memory, break and free list (and make the
\* same sbrk calls and meet the same faults).
ReallocateNullIsAllocate ==
    status = "ready" =>
        \A n \in ReqSizes, lim \in CallLimits :
            relock(Machine(lim), NULL, n) = mlock(Machine(lim), n)

\* relock(NULL, n) obtained a block.
ReallocateNullWitness ==
    /\ Returned /\ last.op = "relock" /\ last.ptr = NULL /\ last.size > 0
    /\ last.ret # NULL /\ AllocOf(last.ret) = ALLOCATED
    /\ last.ret \in DOMAIN live

\* C16. reallocate(p, n) with n <= 0 and p a pointer the caller holds
\* returns NULL and leaves memory, the break and the free list exactly as
\* deallocate(p) leaves them.
ReallocateZeroIsDeallocate ==
    status = "ready" =>
        \A p \in DOMAIN live :
            relock(Machine(brk), p, 0)
                = [m |-> unlock(Machine(brk), p), ret |-> NULL]

\* relock(p, 0) returned and p's block is at the head of the free list.
ReallocateZeroWitness ==
    /\ Returned /\ last.op = "relock" /\ last.ptr # NULL /\ last.size = 0
    /\ last.ret = NULL
    /\ free_list # NULL /\ free_list <= last.ptr
    /\ last.ptr < free_list + SizeOf(free_list)
    /\ AllocOf(free_list) = FREE

\* C17. After a successful init the arena is a prologue header and tag (size
\* 0, allocated), exactly one free block of CHUNK_SIZE payload bytes with
\* equal header and tag, and an epilogue header (size 0, allocated) as the
\* last word; the free list is exactly that block, with null next and
\* previous references.
InitialArena ==
    (last.op = "init_lock" /\ status = "ready") =>
        /\ Word(HeapBase + WORD_SIZE) = PACK_HEADER(0, ALLOCATED)
        /\ Word(HeapBase + 2 * WORD_SIZE) = PACK_HEADER(0, ALLOCATED)
        /\ Blocks = <<FirstBlock>>
        /\ Word(FirstBlock - HEADER_SIZE) = PACK_HEADER(CHUNK_SIZE, FREE)
        /\ Word(FirstBlock + CHUNK_SIZE) = PACK_HEADER(CHUNK_SIZE, FREE)
        /\ EpilogueSlot = FirstBlock + CHUNK_SIZE + BOUNDARY_SIZE
        /\ Word(EpilogueSlot) = PACK_HEADER(0, ALLOCATED)
        /\ FreeList = <<FirstBlock>>
        /\ Word(FirstBlock) = NULL
        /\ Word(FirstBlock + WORD_SIZE) = NULL

\* init_lock succeeded: both of its sbrk calls were granted.
InitialArenaWitness ==
    /\ last.op = "init_lock" /\ status = "ready" /\ last.ret # NULL
    /\ Len(last.calls) = 2 /\ last.calls[1][2] /\ last.calls[2][2]
    /\ free_list = FirstBlock

\* The word at p, and the size and allocated bit of the block at bp, in
\* memory m.
WordIn(m, p) == IF Mapped(p) THEN Load(m, p) ELSE -1
SizeIn(m, bp) == AndNot7(WordIn(m, bp - HEADER_SIZE))
AllocIn(m, bp) == And1(WordIn(m, bp - HEADER_SIZE))

\* The members of free list fl that lie outside the block of payload address
\* h and payload size n, in order.
Surviving(fl, h, n) == SelectSeq(fl, LAMBDA x : x < h \/ x > h + n)

\* C18. LIFO insertion: after deallocate(p) returns, the free-list head is
\* the block that contains p, its previous reference is null, its next
\* reference is the first member of the former list that the merge did not
\* absorb (null when there is none), and that member's previous reference is
\* the new head.
LifoInsertion ==
    [][(last'.op = "unlock" /\ nops' = nops + 1)
       => /\ status' = "ready"
          /\ free_list' # NULL
          /\ free_list' <= last'.ptr
          /\ last'.ptr <= free_list' + SizeIn(mem', free_list')
          /\ WordIn(mem', free_list' + WORD_SIZE) = NULL
          /\ LET rest == Surviving(FreeList, free_list',
                                   SizeIn(mem', free_list'))
             IN  IF rest = <<>>
                 THEN WordIn(mem', free_list') = NULL
                 ELSE /\ WordIn(mem', free_list') = Head(rest)
                      /\ WordIn(mem', Head(rest) + WORD_SIZE) = free_list'
      ]_vars

\* unlock(p) returned with the merged block of p in front of a member of the
\* former list.
LifoInsertionWitness ==
    /\ Returned /\ last.op = "unlock"
    /\ free_list # NULL /\ free_list <= last.ptr
    /\ SizeOf(free_list) > SizeOf(last.ptr)
    /\ Word(free_list) # NULL
    /\ Word(Word(free_list) + WORD_SIZE) = free_list

\* C19. The arena only grows: in every step the bytes obtained from sbrk and
\* the break do not decrease, no sbrk call of any call has a negative
\* increment, and deallocate makes no sbrk call.
ArenaOnlyGrows ==
    [][/\ obtained' >= obtained
       /\ brk' >= brk
       /\ nops' = nops + 1 =>
              \A i \in 1 .. Len(last'.calls) :
                  last'.calls[i][1] < WordModulus \div 2
       /\ (last'.op = "unlock" /\ nops' = nops + 1) => last'.calls = <<>>
      ]_vars

\* The arena has grown beyond its first chunk and a block has been freed
\* since without an sbrk call.
ArenaOnlyGrowsWitness ==
    /\ Returned /\ last.op = "unlock" /\ last.calls = <<>>
    /\ obtained > CHUNK_SIZE + 6 * WORD_SIZE
    /\ brk = HeapBase + obtained
    /\ free_list # NULL

\* The number of times x occurs in sequence s.
Occurrences(s, x) == Cardinality({i \in 1 .. Len(s) : s[i] = x})

\* What deallocate(p) has to leave, read from the memory before the call:
\* the previous block by the boundary tag before p's header, the next block
\* by p's size.
PrevWasFree(p) == And1(Word(p - HEADER_SIZE - BOUNDARY_SIZE)) = FREE
PrevOf(p) ==
    p - HEADER_SIZE - BOUNDARY_SIZE
      - AndNot7(Word(p - HEADER_SIZE - BOUNDARY_SIZE))
NextOf(p) == p + SizeOf(p) + BOUNDARY_SIZE + HEADER_SIZE
NextWasFree(p) == AllocOf(NextOf(p)) = FREE
MergedStart(p) == IF PrevWasFree(p) THEN PrevOf(p) ELSE p
MergedSize(p) ==
    SizeOf(p)
      + (IF PrevWasFree(p)
         THEN SizeOf(PrevOf(p)) + HEADER_SIZE + BOUNDARY_SIZE ELSE 0)
      + (IF NextWasFree(p)
         THEN SizeOf(NextOf(p)) + HEADER_SIZE + BOUNDARY_SIZE ELSE 0)

\* C20. Coalescing result of deallocate(p): the resulting free block starts
\* at the previous block if that was free, else at p; its payload size is
\* size(p) plus size + header + tag of each free neighbour; the absorbed
\* neighbours are no longer in the free list and the merged block is in it
\* exactly once.
CoalescingResult ==
    [][(last'.op = "unlock" /\ nops' = nops + 1)
       => /\ status' = "ready"
          /\ WordIn(mem', MergedStart(last'.ptr) - HEADER_SIZE)
                 = PACK_HEADER(MergedSize(last'.ptr), FREE)
          /\ WordIn(mem', MergedStart(last'.ptr) + MergedSize(last'.ptr))
                 = PACK_HEADER(MergedSize(last'.ptr), FREE)
          /\ Occurrences(FreeList', MergedStart(last'.ptr)) = 1
          /\ PrevWasFree(last'.ptr) /\ MergedStart(last'.ptr) # last'.ptr
                 => Occurrences(FreeList', last'.ptr) = 0
          /\ NextWasFree(last'.ptr)
                 => Occurrences(FreeList', NextOf(last'.ptr)) = 0
      ]_vars

\* unlock(p) returned having merged p with a free block on each side.
CoalescingResultWitness ==
    /\ Returned /\ last.op = "unlock"
    /\ free_list # NULL /\ free_list < last.ptr
    /\ AllocOf(free_list) = FREE
    /\ SizeOf(free_list) = brk - FirstBlock - 2 * WORD_SIZE
    /\ free_list = FirstBlock
    /\ Word(last.ptr - HEADER_SIZE) # 0

\* The aligned request of allocate(n): the least multiple of 8 that is >= n,
\* and at least two words, as a plain integer.
AlignedRequest(n) == MAX(8 * ((n + 7) \div 8), MIN_DATA_SIZE)

\* The members of the free list with a payload of at least n bytes, in
\* free-list order from the head.
Fitting(n) == SelectSeq(FreeList, LAMBDA x : x # -1 /\ SizeOf(x) >= n)

\* C21. First fit: when some member of the free list has a payload >= the
\* aligned request, allocate returns the first such member in free-list order
\* from the head, marked allocated, and makes no sbrk call.
FirstFit ==
    [][(/\ last'.op = "mlock" /\ nops' = nops + 1 /\ last'.size > 0
        /\ Fitting(AlignedRequest(last'.size)) # <<>>)
       => /\ status' = "ready"
          /\ last'.ret = Head(Fitting(AlignedRequest(last'.size)))
          /\ last'.calls = <<>>
          /\ AllocIn(mem', last'.ret) = ALLOCATED
      ]_vars

\* mlock passed over a free-list head that was too small and split a later
\* member without an sbrk call: the remainder is the new head, and the block
\* passed over follows it in the list.
FirstFitWitness ==
    /\ Returned /\ last.op = "mlock" /\ last.ret # NULL /\ last.calls = <<>>
    /\ AllocOf(last.ret) = ALLOCATED
    /\ SizeOf(last.ret) = AlignedRequest(last.size)
    /\ free_list = NextOf(last.ret) /\ AllocOf(free_list) = FREE
    /\ Word(free_list) # NULL /\ Word(free_list) < last.ret
    /\ AllocOf(Word(free_list)) = FREE
    /\ SizeOf(Word(free_list)) < AlignedRequest(last.size)

\* C22. When no member of the free list fits, allocate calls sbrk exactly
\* once, for max(aligned request, CHUNK_SIZE) + header + tag bytes; when sbrk
\* grants them, allocate returns the grown block, which starts at the
\* trailing block of the arena if that was free and at the old break if not,
\* marked allocated and with a payload >= the aligned request.
GrowWhenNoFit ==
    [][(/\ last'.op = "mlock" /\ nops' = nops + 1 /\ last'.size > 0
        /\ Fitting(AlignedRequest(last'.size)) = <<>>)
       => /\ status' = "ready"
          /\ Len(last'.calls) = 1
          /\ last'.calls[1][1]
                 = MAX(AlignedRequest(last'.size), CHUNK_SIZE)
                   + HEADER_SIZE + BOUNDARY_SIZE
          /\ last'.calls[1][2] =>
                 /\ last'.ret = MergedStart(brk)
                 /\ AllocIn(mem', last'.ret) = ALLOCATED
                 /\ SizeIn(mem', last'.ret) >= AlignedRequest(last'.size)
      ]_vars

\* mlock(5000) grew the arena once behind a free trailing block that was too
\* small and returned the merged block.
GrowWhenNoFitWitness ==
    /\ Returned /\ last.op = "mlock" /\ last.ret # NULL
    /\ last.size > CHUNK_SIZE
    /\ last.calls = <<<<AlignedRequest(last.size) + 2 * WORD_SIZE, TRUE>>>>
    /\ AllocOf(last.ret) = ALLOCATED
    /\ SizeOf(last.ret) = AlignedRequest(last.size)
    /\ last.ret = FirstBlock
    /\ obtained = 4 * WORD_SIZE + CHUNK_SIZE + AlignedRequest(last.size)
                      + 4 * WORD_SIZE

\* The address at which stepping block by block from the first block stops:
\* the payload address that would follow the last block met.
WalkEnd ==
    IF Blocks = <<>> THEN FirstBlock ELSE NextOf(Blocks[Len(Blocks)])

\* The sizes extend_heap is called with: mlock passes MAX(size, CHUNK_SIZE).
GrowSizes == {MAX(AlignedRequest(n), CHUNK_SIZE) : n \in {1, 24, 4096, 5000}}

\* extend_heap(size) under data limit lim left, in place of the epilogue
\* header it found, the header of a free block of size bytes, and a new
\* epilogue header right after that block's boundary tag, as the last word
\* before the new break; the prologue is as it was.
GrowMovesEpilogue(lim, size) ==
    extend_heap(Machine(lim), size).ret = 0 =>
        /\ ~extend_heap(Machine(lim), size).m.fault
        /\ ~extend_heap(Machine(lim), size).m.ub
        /\ extend_heap(Machine(lim), size).m.brk
               = brk + size + HEADER_SIZE + BOUNDARY_SIZE
        /\ WordIn(extend_heap(Machine(lim), size).m.mem, EpilogueSlot)
               = PACK_HEADER(size, FREE)
        /\ WordIn(extend_heap(Machine(lim), size).m.mem,
                  brk + size + BOUNDARY_SIZE)
               = PACK_HEADER(0, ALLOCATED)
        /\ WordIn(extend_heap(Machine(lim), size).m.mem,
                  HeapBase + WORD_SIZE) = PACK_HEADER(0, ALLOCATED)
        /\ WordIn(extend_heap(Machine(lim), size).m.mem,
                  HeapBase + 2 * WORD_SIZE) = PACK_HEADER(0, ALLOCATED)

\* C23. Epilogue invariant: after every call the last word obtained from
\* sbrk is an epilogue header (size 0, allocated), stepping block by block
\* from the first block meets no header of size 0 before it, the prologue
\* header and tag are (size 0, allocated), and a successful extend_heap
\* writes the new block's header into the epilogue slot and a new epilogue
\* header right after the new block's boundary tag.
EpilogueInvariant ==
    status = "ready" =>
        /\ Word(EpilogueSlot) = PACK_HEADER(0, ALLOCATED)
        /\ EpilogueSlot = HeapBase + obtained - WORD_SIZE
        /\ WalkEnd - HEADER_SIZE = EpilogueSlot
        /\ Word(HeapBase + WORD_SIZE) = PACK_HEADER(0, ALLOCATED)
        /\ Word(HeapBase + 2 * WORD_SIZE) = PACK_HEADER(0, ALLOCATED)
        /\ \A size \in GrowSizes, lim \in CallLimits :
               GrowMovesEpilogue(lim, size)

\* The arena has grown behind an allocated last block: the word in the
\* former epilogue slot is the header of the block returned, and the epilogue
\* header is the last word.
EpilogueInvariantWitness ==
    /\ Returned /\ last.op = "mlock" /\ last.ret # NULL
    /\ Len(last.calls) = 1 /\ last.calls[1][2]
    /\ last.ret = brk - last.calls[1][1]
    /\ AllocOf(last.ret) = ALLOCATED
    /\ Word(EpilogueSlot) = PACK_HEADER(0, ALLOCATED)
    /\ WalkEnd - HEADER_SIZE = EpilogueSlot
    /\ Len(Blocks) >= 3

\* The free block allocate(n) chooses for an aligned request of n bytes, and
\* its payload size: the first fitting member of the free list, or else the
\* block that extend_heap makes, which starts at the trailing block of the
\* arena if that is free and at the break if not.
ChosenBlock(n) ==
    IF Fitting(n) # <<>> THEN Head(Fitting(n)) ELSE MergedStart(brk)
ChosenSize(n) ==
    IF Fitting(n) # <<>> THEN SizeOf(Head(Fitting(n)))
    ELSE MAX(n, CHUNK_SIZE)
           + (IF PrevWasFree(brk)
              THEN SizeOf(PrevOf(brk)) + HEADER_SIZE + BOUNDARY_SIZE ELSE 0)

\* Header and boundary tag of the block at bp in memory m are both the word
\* for size bytes and allocation state alloc.
Tagged(m, bp, size, alloc) ==
    /\ WordIn(m, bp - HEADER_SIZE) = PACK_HEADER(size, alloc)
    /\ WordIn(m, bp + size) = PACK_HEADER(size, alloc)

\* C24. place, split case: when the payload of the chosen free block exceeds
\* the aligned request by at least MIN_BLOCK_SIZE, the block returned has a
\* payload of exactly the aligned request, a free block of payload
\* difference - header - tag starts right after it (so it is merged with no
\* neighbour), and that remainder is the free-list head when allocate
\* returns, in front of the members the former list keeps.
PlaceSplit ==
    [][(/\ last'.op = "mlock" /\ nops' = nops + 1 /\ last'.size > 0
        /\ ~SbrkFailed(last'.calls)
        /\ ChosenSize(AlignedRequest(last'.size))
               - AlignedRequest(last'.size) >= MIN_BLOCK_SIZE)
       => /\ status' = "ready"
          /\ last'.ret = ChosenBlock(AlignedRequest(last'.size))
          /\ Tagged(mem', last'.ret, AlignedRequest(last'.size), ALLOCATED)
          /\ free_list' = last'.ret + AlignedRequest(last'.size)
                              + BOUNDARY_SIZE + HEADER_SIZE
          /\ Tagged(mem', free_list',
                    ChosenSize(AlignedRequest(last'.size))
                      - AlignedRequest(last'.size)
                      - HEADER_SIZE - BOUNDARY_SIZE,
                    FREE)
          /\ FreeList'
                 = <<free_list'>> \o
                   Surviving(FreeList,
                             ChosenBlock(AlignedRequest(last'.size)),
                             ChosenSize(AlignedRequest(last'.size)))
      ]_vars

\* mlock(24) split the one free block of the initial arena: the remainder of
\* CHUNK_SIZE - 24 - 16 bytes is the free-list head.
PlaceSplitWitness ==
    /\ Returned /\ last.op = "mlock" /\ last.ret = FirstBlock
    /\ last.calls = <<>>
    /\ Word(last.ret - HEADER_SIZE) = PACK_HEADER(24, ALLOCATED)
    /\ free_list = NextOf(last.ret)
    /\ Word(free_list - HEADER_SIZE)
           = PACK_HEADER(CHUNK_SIZE - 24 - 2 * WORD_SIZE, FREE)
    /\ Word(TagOf(free_list)) = Word(free_list - HEADER_SIZE)

\* C25. place, absorb case: when the payload of the chosen free block exceeds
\* the aligned request by more than 0 and less than MIN_BLOCK_SIZE, the whole
\* block is marked allocated at its payload size, no free block is made (the
\* free blocks of the arena are the former ones without the chosen one), and
\* the free list is the former list without that one member.
PlaceAbsorb ==
    [][(/\ last'.op = "mlock" /\ nops' = nops + 1 /\ last'.size > 0
        /\ ~SbrkFailed(last'.calls)
        /\ ChosenSize(AlignedRequest(last'.size))
               > AlignedRequest(last'.size)
        /\ ChosenSize(AlignedRequest(last'.size))
               - AlignedRequest(last'.size) < MIN_BLOCK_SIZE)
       => /\ status' = "ready"
          /\ last'.ret = ChosenBlock(AlignedRequest(last'.size))
          /\ Tagged(mem', last'.ret,
                    ChosenSize(AlignedRequest(last'.size)), ALLOCATED)
          /\ FreeBlocks' = FreeBlocks \ {last'.ret}
          /\ Occurrences(FreeList, last'.ret) = 1
          /\ FreeList' = SelectSeq(FreeList, LAMBDA x : x # last'.ret)
      ]_vars

\* mlock(1) took a free block of 24 bytes whole: the block returned has a
\* payload of 24 bytes for an aligned request of 16, and the block after it
\* is not a remainder.
PlaceAbsorbWitness ==
    /\ Returned /\ last.op = "mlock" /\ last.ret # NULL /\ last.calls = <<>>
    /\ AlignedRequest(last.size) = MIN_DATA_SIZE
    /\ Word(last.ret - HEADER_SIZE) = PACK_HEADER(24, ALLOCATED)
    /\ Word(TagOf(last.ret)) = PACK_HEADER(24, ALLOCATED)
    /\ AllocOf(NextOf(last.ret)) = ALLOCATED
    /\ free_list # NULL

\* The block after p is free and its payload, header and tag hold the n
\* bytes that p lacks: reallocate can grow p in place.
CanMerge(p, n) ==
    /\ NextWasFree(p)
    /\ SizeOf(NextOf(p)) + HEADER_SIZE + BOUNDARY_SIZE >= n

\* In memory m the free list with head h has p's block as its head: the head
\* is a free block that contains p, and the blocks before and after it are
\* allocated.
FreedAtHead(m, h, p) ==
    /\ h # NULL /\ h <= p /\ p <= h + SizeIn(m, h)
    /\ AllocIn(m, h) = FREE
    /\ WordIn(m, h + SizeIn(m, h)) = WordIn(m, h - HEADER_SIZE)
    /\ And1(WordIn(m, h - HEADER_SIZE - BOUNDARY_SIZE)) = ALLOCATED
    /\ And1(WordIn(m, h + SizeIn(m, h) + BOUNDARY_SIZE)) = ALLOCATED

\* C26. reallocate grow decision: for an aligned new size greater than the
\* payload of p, reallocate returns p exactly when the block after p is free
\* and its payload + header + tag >= new size - current; otherwise, unless
\* sbrk refuses, it returns a different pointer, to an allocated block of at
\* least the new size, and p's block is free, coalesced and the head of the
\* free list when the call returns.
ReallocateGrowDecision ==
    [][(/\ last'.op = "relock" /\ last'.ptr # NULL /\ nops' = nops + 1
        /\ last'.size > 0
        /\ AlignedRequest(last'.size) > SizeOf(last'.ptr)
        /\ ~SbrkFailed(last'.calls))
       => /\ status' = "ready"
          /\ last'.ret # NULL
          /\ last'.ret = last'.ptr
                 <=> CanMerge(last'.ptr,
                              AlignedRequest(last'.size) - SizeOf(last'.ptr))
          /\ last'.ret # last'.ptr =>
                 /\ AllocIn(mem', last'.ret) = ALLOCATED
                 /\ SizeIn(mem', last'.ret) >= AlignedRequest(last'.size)
                 /\ FreedAtHead(mem', free_list', last'.ptr)
      ]_vars

\* relock moved a block whose free neighbour was too small: the block
\* returned is another one, and the old block is the free-list head.
ReallocateGrowDecisionWitness ==
    /\ Returned /\ last.op = "relock" /\ last.ptr # NULL
    /\ last.ret # NULL /\ last.ret # last.ptr
    /\ AllocOf(last.ret) = ALLOCATED
    /\ SizeOf(last.ret) = AlignedRequest(last.size)
    /\ free_list = last.ptr /\ AllocOf(last.ptr) = FREE
    /\ SizeOf(last.ptr) < AlignedRequest(last.size)
    /\ Len(last.calls) = 1 /\ last.calls[1][2]

\* What an in-place grow of p to n bytes has to leave, read from the memory
\* before the call: the bytes gained from the block after p, the bytes left
\* over, and p's new payload size.
Gained(p) == HEADER_SIZE + BOUNDARY_SIZE + SizeOf(NextOf(p))
Leftover(p, n) == Gained(p) - (n - SizeOf(p))
GrownSize(p, n) ==
    IF Leftover(p, n) < MIN_BLOCK_SIZE THEN SizeOf(p) + Gained(p) ELSE n

\* C27. reallocate in-place grow result: when the block after p is free and
\* large enough, reallocate returns p, still allocated, and that neighbour is
\* no longer in the free list; with leftover = gained - needed, p's payload
\* is the new size when leftover = 0, current + gained when
\* 0 < leftover < MIN_BLOCK_SIZE, and the new size when leftover >=
\* MIN_BLOCK_SIZE, in which case a free block of payload leftover - header -
\* tag follows p and is the free-list head.
ReallocateGrowInPlace ==
    [][(/\ last'.op = "relock" /\ last'.ptr # NULL /\ nops' = nops + 1
        /\ last'.size > 0
        /\ AlignedRequest(last'.size) > SizeOf(last'.ptr)
        /\ CanMerge(last'.ptr,
                    AlignedRequest(last'.size) - SizeOf(last'.ptr)))
       => /\ status' = "ready"
          /\ last'.ret = last'.ptr
          /\ last'.calls = <<>>
          /\ Tagged(mem', last'.ptr,
                    GrownSize(last'.ptr, AlignedRequest(last'.size)),
                    ALLOCATED)
          /\ Occurrences(FreeList', NextOf(last'.ptr)) = 0
          /\ IF Leftover(last'.ptr, AlignedRequest(last'.size))
                    < MIN_BLOCK_SIZE
             THEN FreeList'
                      = SelectSeq(FreeList,
                                  LAMBDA x : x # NextOf(last'.ptr))
             ELSE /\ free_list' = last'.ptr + AlignedRequest(last'.size)
                                      + BOUNDARY_SIZE + HEADER_SIZE
                  /\ Tagged(mem', free_list',
                            Leftover(last'.ptr, AlignedRequest(last'.size))
                              - HEADER_SIZE - BOUNDARY_SIZE,
                            FREE)
                  /\ FreeList'
                         = <<free_list'>> \o
                           SelectSeq(FreeList,
                                     LAMBDA x : x # NextOf(last'.ptr))
      ]_vars

\* relock(p, 24) grew a block of 16 bytes into its free neighbour and left a
\* free remainder at the head of the free list.
ReallocateGrowInPlaceWitness ==
    /\ Returned /\ last.op = "relock" /\ last.ptr # NULL
    /\ last.ret = last.ptr /\ last.size = 24 /\ last.calls = <<>>
    /\ Word(last.ptr - HEADER_SIZE) = PACK_HEADER(24, ALLOCATED)
    /\ Word(TagOf(last.ptr)) = PACK_HEADER(24, ALLOCATED)
    /\ free_list = NextOf(last.ptr) /\ AllocOf(free_list) = FREE
    /\ SizeOf(free_list) = CHUNK_SIZE - 24 - 2 * WORD_SIZE
    /\ Word(TagOf(free_list)) = Word(free_list - HEADER_SIZE)

\* The payload of the free block that a shrink of p to n bytes leaves behind
\* p: the bytes cut off less header and tag, plus the block after p with its
\* header and tag when that block is free.
ShrinkRemainder(p, n) ==
    SizeOf(p) - n - HEADER_SIZE - BOUNDARY_SIZE
      + (IF NextWasFree(p)
         THEN SizeOf(NextOf(p)) + HEADER_SIZE + BOUNDARY_SIZE ELSE 0)

\* C28. reallocate shrink with a split: for an aligned new size that is at
\* least MIN_BLOCK_SIZE less than the payload of p, reallocate returns p
\* without an sbrk call, p's payload is exactly the new size, and the bytes
\* cut off are a free block right after p, merged with the block after it
\* when that was free, at the head of the free list.
ReallocateShrinkSplit ==
    [][(/\ last'.op = "relock" /\ last'.ptr # NULL /\ nops' = nops + 1
        /\ last'.size > 0
        /\ SizeOf(last'.ptr) - AlignedRequest(last'.size) >= MIN_BLOCK_SIZE)
       => /\ status' = "ready"
          /\ last'.ret = last'.ptr
          /\ last'.calls = <<>>
          /\ Tagged(mem', last'.ptr, AlignedRequest(last'.size), ALLOCATED)
          /\ free_list' = last'.ptr + AlignedRequest(last'.size)
                              + BOUNDARY_SIZE + HEADER_SIZE
          /\ Tagged(mem', free_list',
                    ShrinkRemainder(last'.ptr, AlignedRequest(last'.size)),
                    FREE)
          /\ FreeList'
                 = <<free_list'>> \o
                   SelectSeq(FreeList, LAMBDA x : x # NextOf(last'.ptr))
      ]_vars

\* relock(p, 24) cut a block of more than CHUNK_SIZE bytes down to 24 in
\* front of a free block: the remainder, merged with that block up to the
\* epilogue, is the free-list head.
ReallocateShrinkSplitWitness ==
    /\ Returned /\ last.op = "relock" /\ last.ptr # NULL
    /\ last.ret = last.ptr /\ last.size = 24 /\ last.calls = <<>>
    /\ Word(last.ptr - HEADER_SIZE) = PACK_HEADER(24, ALLOCATED)
    /\ free_list = NextOf(last.ptr) /\ AllocOf(free_list) = FREE
    /\ SizeOf(free_list) > CHUNK_SIZE
    /\ Word(TagOf(free_list)) = Word(free_list - HEADER_SIZE)
    /\ TagOf(free_list) = EpilogueSlot - BOUNDARY_SIZE

\* C29. reallocate shrink without a split: for an aligned new size that is
\* less than the payload of p by less than MIN_BLOCK_SIZE, reallocate returns
\* p without an sbrk call and every word of memory (headers, tags, payloads),
\* the break and the free list are as before the call: the block keeps its
\* payload size.
ReallocateShrinkNoSplit ==
    [][(/\ last'.op = "relock" /\ last'.ptr # NULL /\ nops' = nops + 1
        /\ last'.size > 0
        /\ AlignedRequest(last'.size) < SizeOf(last'.ptr)
        /\ SizeOf(last'.ptr) - AlignedRequest(last'.size) < MIN_BLOCK_SIZE)
       => /\ status' = "ready"
          /\ last'.ret = last'.ptr
          /\ last'.calls = <<>>
          /\ mem' = mem /\ free_list' = free_list /\ brk' = brk
          /\ obtained' = obtained
      ]_vars

\* relock(p, 1) returned p for a block of 24 bytes that held the caller's
\* data: the block still has 24 bytes, 8 more than the aligned new size.
ReallocateShrinkNoSplitWitness ==
    /\ Returned /\ last.op = "relock" /\ last.ptr # NULL
    /\ last.ret = last.ptr /\ last.size = 1 /\ last.calls = <<>>
    /\ Word(last.ptr - HEADER_SIZE) = PACK_HEADER(24, ALLOCATED)
    /\ Word(TagOf(last.ptr)) = PACK_HEADER(24, ALLOCATED)
    /\ Word(last.ptr) # 0

\* The sizes and the patterns of the test loop: every sequence of 1 to
\* MaxPattern request sizes > 0.
PatternSizes == ReqSizes \ {0}
Patterns ==
    UNION {[1 .. n -> PatternSizes] : n \in 1 .. MaxPattern}

\* Machine m at the start of the next iteration: what the iteration before
\* left in memory, with nothing recorded yet.
NextIteration(m) ==
    [m EXCEPT !.fault = FALSE, !.hang = FALSE, !.ub = FALSE,
              !.calls = <<>>, !.stopped = <<>>, !.ubcalls = <<>>]

\* In machine m the whole arena is one free block: the free list is the first
\* block alone, and that block runs up to the boundary tag before the
\* epilogue header, the last word before the break.
OneFreeBlock(m) ==
    /\ m.free_list = FirstBlock
    /\ Tagged(m.mem, FirstBlock, m.brk - FirstBlock - 2 * WORD_SIZE, FREE)
    /\ WordIn(m.mem, FirstBlock) = NULL
    /\ WordIn(m.mem, m.brk - WORD_SIZE) = PACK_HEADER(0, ALLOCATED)
    /\ WordIn(m.mem, HeapBase + 2 * WORD_SIZE) = PACK_HEADER(0, ALLOCATED)

\* The iteration that left r went through: no call faulted or hung, and
\* every mlock returned a pointer.
AllSucceeded(r) ==
    /\ ~r.m.fault /\ ~r.m.hang
    /\ \A k \in 1 .. Len(r.arrs) : r.arrs[k] # NULL

\* first is what one iteration of the loop left; the same iteration made
\* again succeeds without an sbrk call and without undefined behaviour, and
\* leaves the arena one free block with the same break.
Reuses(first, pattern) ==
    AllSucceeded(first) =>
        /\ AllSucceeded(main_iteration(NextIteration(first.m), pattern))
        /\ main_iteration(NextIteration(first.m), pattern).m.calls = <<>>
        /\ ~main_iteration(NextIteration(first.m), pattern).m.ub
        /\ main_iteration(NextIteration(first.m), pattern).m.brk
               = first.m.brk
        /\ OneFreeBlock(main_iteration(NextIteration(first.m), pattern).m)

\* C30. Steady-state reuse: from every state in which the whole arena is one
\* free block, when the blocks of a pattern have been allocated in turn and
\* then all deallocated, allocating the same pattern again succeeds without
\* an sbrk call, and the arena is one free block again after it: the loop of
\* the test program does not grow the arena after its first iteration.
SteadyStateReuse ==
    (status = "ready" /\ OneFreeBlock(Machine(brk))) =>
        \A pattern \in Patterns :
            Reuses(main_iteration(Machine(HeapBase + MaxHeap), pattern),
                   pattern)

\* A block greater than the first chunk was allocated with growth, given
\* back, and allocated again at the same place without an sbrk call.
SteadyStateReuseWitness ==
    /\ Returned /\ last.op = "mlock" /\ last.size > CHUNK_SIZE
    /\ last.ret = FirstBlock /\ last.calls = <<>>
    /\ nops = 4 /\ DOMAIN live = {FirstBlock}
    /\ AllocOf(FirstBlock) = ALLOCATED
    /\ obtained = 4 * WORD_SIZE + CHUNK_SIZE + AlignedRequest(last.size)
                      + 4 * WORD_SIZE

\* The addresses of the payload words of the block at bp, by its header.
PayloadWords(bp) ==
    {bp + WORD_SIZE * i : i \in 0 .. SizeOf(bp) \div WORD_SIZE - 1}

\* The allocated blocks of the arena.
AllocatedBlocks == {bp \in BlockSet : AllocOf(bp) = ALLOCATED}

\* C31. No operation on other pointers modifies a live allocation: for every
\* allocated block q, an allocate, a deallocate(p) or a reallocate(p, n) with
\* p # q leaves q's header word (its size and allocated flag) and every word
\* of q's payload as they were, so no free-list reference is written inside
\* the payload of an allocated block.
LiveAllocationsKept ==
    [][(last'.op \in {"mlock", "unlock", "relock"} /\ nops' = nops + 1)
       => \A q \in AllocatedBlocks \ {last'.ptr} :
              /\ WordIn(mem', q - HEADER_SIZE) = Word(q - HEADER_SIZE)
              /\ \A a \in PayloadWords(q) : WordIn(mem', a) = Word(a)
      ]_vars

\* mlock returned a block while the caller held another block of 24 bytes
\* filled with its pattern: header and pattern of that block are intact.
LiveAllocationsKeptWitness ==
    /\ Returned /\ last.op = "mlock" /\ last.ret # NULL
    /\ \E q \in DOMAIN live \ {last.ret} :
          /\ q \in AllocatedBlocks /\ live[q] = 24
          /\ Word(q - HEADER_SIZE) = PACK_HEADER(24, ALLOCATED)
          /\ \A i \in 0 .. 2 : Word(q + WORD_SIZE * i) = W(40960 + i)

\* C32. Non-overlap: after every call the payload ranges of any two blocks
\* the caller holds are disjoint (the payload of the lower one, by its header,
\* ends at or before the start of the higher one), and a pointer returned by
\* allocate or reallocate is not one the caller still holds, other than the
\* pointer given to reallocate.
NonOverlap ==
    [][(nops' = nops + 1)
       => /\ \A p \in DOMAIN live', q \in DOMAIN live' :
                 p < q => p + SizeIn(mem', p) <= q
          /\ (last'.op \in {"mlock", "relock"} /\ last'.ret # NULL)
                 => last'.ret \notin DOMAIN live \ {last'.ptr}
      ]_vars

\* The caller holds two allocated blocks, one right after the other, and the
\* second of them was returned by the last call.
NonOverlapWitness ==
    /\ Returned /\ last.op \in {"mlock", "relock"} /\ last.ret # NULL
    /\ Cardinality(DOMAIN live) = 2
    /\ \E p \in DOMAIN live :
          /\ AllocOf(p) = ALLOCATED /\ AllocOf(last.ret) = ALLOCATED
          /\ SizeOf(p) >= live[p] /\ SizeOf(last.ret) >= live[last.ret]
          /\ last.ret = p + SizeOf(p) + BOUNDARY_SIZE + HEADER_SIZE

\* The free list is a finite doubly linked list without a repeated member:
\* following next references from the head ends at a null reference without
\* meeting a member twice or leaving the mapped memory, the head's previous
\* reference is null, and the previous reference of every member's successor
\* is that member.
WellFormed ==
    /\ \A i \in 1 .. Len(FreeList) : FreeList[i] # -1
    /\ free_list # NULL => Word(free_list + WORD_SIZE) = NULL
    /\ \A i \in 1 .. Len(FreeList) - 1 :
           Word(FreeList[i + 1] + WORD_SIZE) = FreeList[i]

\* C33. Free-list well-formedness: after every call returns, the free list
\* is a finite acyclic doubly linked list with no repeated member: the head's
\* backward reference is null, the last member's forward reference is null,
\* and for every member x with forward reference y, y's backward reference
\* is x.
FreeListWellFormed == Returned => WellFormed

\* unlock put a block in front of another member: the list has two members,
\* linked in both directions, with null references at both ends.
FreeListWellFormedWitness ==
    /\ Returned /\ last.op = "unlock" /\ Len(FreeList) = 2
    /\ FreeList[1] = free_list /\ FreeList[2] = Word(free_list)
    /\ FreeList[2] # -1
    /\ Word(free_list + WORD_SIZE) = NULL
    /\ Word(FreeList[2] + WORD_SIZE) = free_list
    /\ Word(FreeList[2]) = NULL

\* ---[ remove_free_block ON ITS OWN ]--------------------------------------

\* The arenas remove_free_block is applied to: after init_lock, ArenaBlocks
\* blocks of two words have been allocated one after the other, and up to
\* MaxFree of them, no two adjacent and not the last, have been given back in
\* the order s.  The free list is then the blocks given back, the last one
\* first, followed by the rest of the first chunk.
ArenaBlocks == 2 * MaxFree + 1
ArenaBlock(i) ==
    FirstBlock + (i - 1) * (MIN_DATA_SIZE + HEADER_SIZE + BOUNDARY_SIZE)
ArenaRest == ArenaBlock(ArenaBlocks + 1)
ArenaRestSize ==
    CHUNK_SIZE - ArenaBlocks * (MIN_DATA_SIZE + HEADER_SIZE + BOUNDARY_SIZE)
ArenaBreak == ArenaRest + ArenaRestSize + BOUNDARY_SIZE + HEADER_SIZE

FreeOrders ==
    {s \in UNION {[1 .. n -> 1 .. ArenaBlocks - 1] : n \in 0 .. MaxFree} :
        \A i \in 1 .. Len(s), j \in 1 .. Len(s) :
            i < j => (s[i] - s[j] >= 2 \/ s[j] - s[i] >= 2)}

ArenaFreed(s) == {ArenaBlock(s[i]) : i \in 1 .. Len(s)}
ArenaList(s) ==
    [i \in 1 .. Len(s) + 1 |->
        IF i <= Len(s) THEN ArenaBlock(s[Len(s) + 1 - i]) ELSE ArenaRest]

\* The magic word, the prologue and the epilogue, as init_lock and
\* extend_heap write them.
ArenaSentinels ==
    [a \in {HeapBase, HeapBase + WORD_SIZE, HeapBase + 2 * WORD_SIZE,
            ArenaBreak - WORD_SIZE} |->
        IF a = HeapBase THEN KEY ELSE PACK_HEADER(0, ALLOCATED)]

\* Header and boundary tag of every block, as place and unlock write them.
ArenaHeaders(s) ==
    [a \in {ArenaBlock(i) - HEADER_SIZE : i \in 1 .. ArenaBlocks + 1} |->
        IF a + HEADER_SIZE = ArenaRest THEN PACK_HEADER(ArenaRestSize, FREE)
        ELSE PACK_HEADER(MIN_DATA_SIZE,
                         IF a + HEADER_SIZE \in ArenaFreed(s) THEN FREE
                         ELSE ALLOCATED)]
ArenaTags(s) ==
    [a \in {ArenaBlock(i) + MIN_DATA_SIZE : i \in 1 .. ArenaBlocks}
           \cup {ArenaRest + ArenaRestSize} |->
        IF a = ArenaRest + ArenaRestSize
        THEN PACK_HEADER(ArenaRestSize, FREE)
        ELSE PACK_HEADER(MIN_DATA_SIZE,
                         IF a - MIN_DATA_SIZE \in ArenaFreed(s) THEN FREE
                         ELSE ALLOCATED)]

\* The next and previous references of the members, as unlock's insertion
\* at the head writes them.
ArenaNext(s) ==
    [a \in {ArenaList(s)[i] : i \in 1 .. Len(s) + 1} |->
        IF a = ArenaRest THEN NULL
        ELSE ArenaList(s)[1 + CHOOSE i \in 1 .. Len(s) : ArenaList(s)[i] = a]]
ArenaPrev(s) ==
    [a \in {ArenaList(s)[i] + WORD_SIZE : i \in 1 .. Len(s) + 1} |->
        IF a - WORD_SIZE = ArenaList(s)[1] THEN NULL
        ELSE ArenaList(s)[(CHOOSE i \in 2 .. Len(s) + 1 :
                               ArenaList(s)[i] = a - WORD_SIZE) - 1]]

ArenaMem(s) ==
    Store(Store(Store(Store(ArenaSentinels, ArenaHeaders(s)), ArenaTags(s)),
                ArenaNext(s)),
          ArenaPrev(s))

ArenaInit ==
    \E s \in FreeOrders :
        /\ mem = Nonzero(ArenaMem(s))
        /\ free_list = ArenaList(s)[1]
        /\ brk = ArenaBreak
        /\ live = [p \in {ArenaBlock(i) : i \in 1 .. ArenaBlocks}
                            \ ArenaFreed(s) |-> MIN_DATA_SIZE]
        /\ status = "ready"
        /\ last = Call("arena", NULL, 0, NULL, <<>>)
        /\ obtained = ArenaBreak - HeapBase
        /\ nops = 0
        /\ threads = <<>>
        /\ lock = Unsynchronized

\* r is the machine remove_free_block(fp) left.
Removed(fp, r) ==
    /\ mem' = Nonzero(r.mem)
    /\ free_list' = r.free_list
    /\ status' = IF r.fault \/ r.ub THEN "crashed" ELSE "ready"
    /\ last' = Call("remove_free_block", fp, 0, NULL, r.calls)
    /\ nops' = nops + 1
    /\ UNCHANGED <<brk, live, obtained, threads, lock>>

RemoveFreeBlock ==
    /\ status = "ready"
    /\ \E fp \in FreeListSet \ {-1} :
          Removed(fp, remove_free_block(Machine(brk), fp))

RemoveNext == RemoveFreeBlock

RemoveSpec == ArenaInit /\ [][RemoveNext]_vars

\* C34. remove(block) unlinks a member from any position (head, tail, middle
\* or sole element): afterwards the block is not reachable from the head, the
\* other members are the list in the same order, with consistent forward and
\* backward references, and the head is block.next when the block was the
\* head and the former head when it was not.
RemoveUnlinks ==
    [][(last'.op = "remove_free_block" /\ nops' = nops + 1)
       => /\ status' = "ready"
          /\ Occurrences(FreeList', last'.ptr) = 0
          /\ FreeList' = SelectSeq(FreeList, LAMBDA x : x # last'.ptr)
          /\ WellFormed'
          /\ free_list' = IF last'.ptr = free_list THEN Word(last'.ptr)
                          ELSE free_list
      ]_vars

\* A member between two others was removed: the references it still holds
\* name two members of the list that now refer to each other.
RemoveUnlinksWitness ==
    /\ last.op = "remove_free_block" /\ status = "ready"
    /\ Word(last.ptr) # NULL /\ Word(last.ptr + WORD_SIZE) # NULL
    /\ Word(last.ptr) \in FreeListSet
    /\ Word(last.ptr + WORD_SIZE) \in FreeListSet
    /\ Word(Word(last.ptr + WORD_SIZE)) = Word(last.ptr)
    /\ Word(Word(last.ptr) + WORD_SIZE) = Word(last.ptr + WORD_SIZE)
    /\ last.ptr \notin FreeListSet

\* C35. Word-width arithmetic: for every requested size > 0 of the word
\* range, sizes near the maximum word value included, the aligned size that
\* allocate computes is the least multiple of 8 that is >= the request (at
\* least two words), the byte count of every sbrk call allocate makes is the
\* greater of that size and CHUNK_SIZE plus header and tag, not that number
\* modulo 2^w, and a block that allocate returns has a payload of at least
\* the request.
WordWidthArithmetic ==
    [][(last'.op = "mlock" /\ nops' = nops + 1 /\ last'.size > 0)
       => /\ MAX(ALIGN_BYTES(last'.size), MIN_DATA_SIZE)
                 = AlignedRequest(last'.size)
          /\ \A i \in 1 .. Len(last'.calls) :
                 last'.calls[i][1]
                     = MAX(AlignedRequest(last'.size), CHUNK_SIZE)
                       + HEADER_SIZE + BOUNDARY_SIZE
          /\ (status' = "ready" /\ last'.ret # NULL)
                 => SizeIn(mem', last'.ret) >= last'.size
      ]_vars

\* mlock of a size greater than a chunk grew the arena by the aligned size
\* plus two words, a count below 2^(w-1), and returned a block of the aligned
\* size.
WordWidthArithmeticWitness ==
    /\ Returned /\ last.op = "mlock" /\ last.ret # NULL
    /\ last.size > CHUNK_SIZE
    /\ last.size + 3 * WORD_SIZE < WordModulus \div 2
    /\ last.calls = <<<<8 * ((last.size + 7) \div 8) + 2 * WORD_SIZE, TRUE>>>>
    /\ SizeOf(last.ret) = 8 * ((last.size + 7) \div 8)
    /\ SizeOf(last.ret) >= last.size
    /\ AllocOf(last.ret) = ALLOCATED
    /\ Len(Blocks) = 2

\* C36. Every init, allocate, deallocate and reallocate call made in a
\* reachable state runs to completion: no call is stopped by a fault, and no
\* call loops for ever (the first-fit scan comes to no member a second time
\* and stops at a fitting block or at the null reference).
RunsToCompletion == status \notin {"crashed", "hung"}

\* The first-fit scan of mlock(4096) passed over both members of the free
\* list, a block of 24 bytes and a block short of a chunk, met the null
\* reference, and sbrk refused the growth: mlock returned NULL and the list
\* is as the scan found it.
RunsToCompletionWitness ==
    /\ status = "ready" /\ nops = MaxOps
    /\ last.op = "mlock" /\ last.size = CHUNK_SIZE /\ last.ret = NULL
    /\ last.calls = <<<<CHUNK_SIZE + 2 * WORD_SIZE, FALSE>>>>
    /\ Len(FreeList) = 2 /\ WellFormed
    /\ SizeOf(FreeList[1]) = 24
    /\ SizeOf(FreeList[2]) < CHUNK_SIZE /\ SizeOf(FreeList[2]) > 24
    /\ AllocOf(FreeList[1]) = FREE /\ AllocOf(FreeList[2]) = FREE

\* ---[ CONCURRENT CALLERS ]------------------------------------------------

\* Two threads call mlock and unlock on the arena that init_lock left.  A
\* step of a thread is atomic; mlock is two steps, the first-fit scan (line
\* 298) and the rest (lines 300-317), so that another thread may run between
\* them.  When the callers synchronise, a thread takes the one lock before a
\* call and gives it back after it.
Threads == {1, 2}
ConcSizes == {1, 24, WordModulus - 32}

\* A machine before init_lock, with nothing in the way of sbrk.
Fresh ==
    [mem |-> Empty, free_list |-> NULL, brk |-> HeapBase,
     lim |-> HeapBase + MaxHeap, fault |-> FALSE, hang |-> FALSE,
     ub |-> FALSE, calls |-> <<>>, stopped |-> <<>>, ubcalls |-> <<>>]

IdleThread == [pc |-> "idle", size |-> 0, fp |-> NULL, held |-> {}, ops |-> 0]

ConcInit ==
    /\ mem = Nonzero(init_lock(Fresh).m.mem)
    /\ free_list = init_lock(Fresh).m.free_list
    /\ brk = init_lock(Fresh).m.brk
    /\ live = Empty
    /\ status = "ready"
    /\ last = Call("init_lock", NULL, 0, init_lock(Fresh).ret,
                   init_lock(Fresh).m.calls)
    /\ obtained = Granted(init_lock(Fresh).m.calls)
    /\ nops = 1
    /\ threads = [t \in Threads |-> IdleThread]
    /\ lock \in {Unsynchronized, Unlocked}

\* The lock after thread t took it, and after its holder gave it back.
Acquired(t) == IF lock = Unsynchronized THEN lock ELSE t
Released == IF lock = Unsynchronized THEN lock ELSE Unlocked

\* A step of a thread left machine r.m: the step's writes are in memory, or
\* the step faulted (or met undefined behaviour) and the process is killed.
ConcStep(r, th, lk, lv, done) ==
    \/ /\ ~r.m.fault /\ ~r.m.hang
       /\ mem' = Nonzero(r.m.mem)
       /\ free_list' = r.m.free_list
       /\ brk' = r.m.brk
       /\ obtained' = obtained + Granted(r.m.calls)
       /\ threads' = th
       /\ lock' = lk
       /\ live' = lv
       /\ nops' = nops + done
       /\ UNCHANGED <<status, last>>
    \/ /\ r.m.fault \/ r.m.hang \/ r.m.ub
       /\ status' = "crashed"
       /\ UNCHANGED <<mem, free_list, brk, obtained, threads, lock, live,
                      nops, last>>

\* Thread t enters mlock(size), size > 0, and aligns the size.
ThreadMlock(t) ==
    /\ status = "ready"
    /\ threads[t].pc = "idle" /\ threads[t].ops < MaxThreadOps
    /\ lock \in {Unsynchronized, Unlocked}
    /\ \E size \in ConcSizes :
          threads' = [threads EXCEPT
                         ![t].pc = "find_fit",
                         ![t].size = MAX(ALIGN_BYTES(size), MIN_DATA_SIZE),
                         ![t].ops = @ + 1]
    /\ lock' = Acquired(t)
    /\ UNCHANGED <<mem, free_list, brk, live, status, last, obtained, nops>>

\* fp = find_fit(size)
ThreadFindFit(t) ==
    /\ status = "ready" /\ threads[t].pc = "find_fit"
    /\ ConcStep(find_fit(Machine(HeapBase + MaxHeap), threads[t].size),
                [threads EXCEPT
                    ![t].pc = "place",
                    ![t].fp = find_fit(Machine(HeapBase + MaxHeap),
                                       threads[t].size).ret],
                lock, live, 0)

\* r is what the rest of mlock gave thread t.
ThreadReturn(t, r) ==
    ConcStep(r,
             [threads EXCEPT
                 ![t].pc = "idle", ![t].fp = NULL, ![t].size = 0,
                 ![t].held = IF r.ret = NULL THEN @ ELSE @ \cup {r.ret}],
             Released,
             IF r.ret = NULL THEN live
             ELSE With(live, r.ret, threads[t].size),
             1)

\* The rest of mlock from the fp that find_fit gave: place, or extend_heap
\* and place.
ThreadPlace(t) ==
    /\ status = "ready" /\ threads[t].pc = "place"
    /\ ThreadReturn(t, mlock_found([m |-> Machine(HeapBase + MaxHeap),
                                    ret |-> threads[t].fp],
                                   threads[t].size))

\* unlock(ptr) of a block the thread holds, in one step.
ThreadUnlock(t) ==
    /\ status = "ready"
    /\ threads[t].pc = "idle" /\ threads[t].ops < MaxThreadOps
    /\ lock \in {Unsynchronized, Unlocked}
    /\ \E ptr \in threads[t].held :
          ConcStep([m |-> unlock(Machine(brk), ptr), ret |-> NULL],
                   [threads EXCEPT ![t].held = @ \ {ptr}, ![t].ops = @ + 1],
                   lock, Without(live, ptr), 1)

ConcNext ==
    \E t \in Threads :
        \/ ThreadMlock(t)
        \/ ThreadFindFit(t)
        \/ ThreadPlace(t)
        \/ ThreadUnlock(t)

ConcSpec == ConcInit /\ [][ConcNext]_vars

\* No block is held by both threads.
NoSharedBlock == threads[1].held \cap threads[2].held = {}

\* C37. With one lock around every call, no state is reachable in which both
\* callers hold the same block, or the headers or the free list are damaged:
\* the invariants of the arena and of the free list hold.  (Without the lock
\* there is an interleaving that reaches such a state: the witness.)
LockedIsSafe ==
    lock # Unsynchronized =>
        /\ NoSharedBlock
        /\ TagConsistency
        /\ FreeListMembership
        /\ NoAdjacentFree
        /\ MinimumSize
        /\ FreeListWellFormed

\* Without a lock both threads ran first fit before either placed, and both
\* were given the same block.
RaceWitness ==
    /\ lock = Unsynchronized /\ status = "ready"
    /\ threads[1].pc = "idle" /\ threads[2].pc = "idle"
    /\ threads[1].held \cap threads[2].held # {}

\* ---[ THE HEADER CODEC ON ITS OWN ]---------------------------------------

\* The sizes packed: every number up to MaxCodecSize, multiples of 8 or not,
\* and the greatest multiple of 8 of the word range.
CodecSizes == 0 .. MaxCodecSize \cup {WordModulus - WORD_SIZE}

CodecInit ==
    /\ mem = Nonzero(init_lock(Fresh).m.mem)
    /\ free_list = init_lock(Fresh).m.free_list
    /\ brk = init_lock(Fresh).m.brk
    /\ live = Empty
    /\ status = "ready"
    /\ last = Call("init_lock", NULL, 0, init_lock(Fresh).ret,
                   init_lock(Fresh).m.calls)
    /\ obtained = Granted(init_lock(Fresh).m.calls)
    /\ nops = 1
    /\ threads = <<>>
    /\ lock = Unsynchronized

\* The first statement of REDO_HEADERS on the first block: the header word
\* PACK_HEADER(size, alloc) is stored in front of the block.
PutHeader ==
    /\ \E size \in CodecSizes, alloc \in {FREE, ALLOCATED} :
          /\ mem' = Nonzero(PUT_WORD(Machine(brk), GET_HEADER(FirstBlock),
                                     PACK_HEADER(size, alloc)).mem)
          /\ last' = Call("PACK_HEADER", GET_HEADER(FirstBlock), size, alloc,
                          <<>>)
    /\ UNCHANGED <<free_list, brk, live, status, obtained, nops, threads,
                   lock>>

CodecNext == PutHeader

CodecSpec == CodecInit /\ [][CodecNext]_vars

\* C38. Header codec round trip: for every size that is a multiple of 8 and
\* every allocated flag, the size and the flag decoded from the word
\* PACK_HEADER(size, flag) are size and flag; and for every word the decoded
\* size is the word with its low 3 bits cleared.
HeaderRoundTrip ==
    last.op = "PACK_HEADER" =>
        /\ last.size % 8 = 0 =>
               /\ GET_SIZE_FROM_HEADER(Machine(brk), last.ptr) = last.size
               /\ GET_ALLOC_FROM_HEADER(Machine(brk), last.ptr) = last.ret
        /\ GET_SIZE_FROM_HEADER(Machine(brk), last.ptr)
               = 8 * (Word(last.ptr) \div 8)

\* The header of an allocated block of 24 bytes was packed: the word is 25,
\* and 24 and 1 are decoded from it.
HeaderRoundTripWitness ==
    /\ last.op = "PACK_HEADER" /\ last.size = 24 /\ last.ret = ALLOCATED
    /\ Word(last.ptr) = 25
    /\ GET_SIZE_FROM_HEADER(Machine(brk), last.ptr) = 24
    /\ GET_ALLOC_FROM_HEADER(Machine(brk), last.ptr) = ALLOCATED

=============================================================================
